---- MODULE Spec2Model ----
(***************************************************************************)
(* A model of the identifier-assignment, de-duplication and streaming core *)
(* of openalex_parser: TableEmitter (emitter.py), IdCatalog                *)
(* (id_catalog.py), StableIdGenerator (identifiers.py),                    *)
(* EnumerationRegistry (reference.py) and SnapshotReader (json_iter.py).   *)
(*                                                                         *)
(* Python values are encoded as follows.  A str is a sequence of           *)
(* one-character strings.  An Optional value is None (the empty tuple) or  *)
(* Some(v) (the one-element tuple), so that None never has to be compared  *)
(* with a value of another type.  A dict is a function.                    *)
(***************************************************************************)
EXTENDS Integers, Sequences, FiniteSets, TLC

VARIABLES
    seen,        \* TableEmitter._seen: table -> set of key tuples
    sink,        \* rows handed to CsvWriterManager.write_row, in order
    emitLast,    \* the last emitter call: what it was given and how it ended
    cat,         \* the IdCatalog instances: their value sets and assignments
    refdir,      \* the reference directory: whether it exists, and its files
    recorded,    \* per catalog, the non-empty values its record_* calls were given
    first,       \* per catalog, the first non-empty value recorded
    src,         \* per catalog, the recorded set its assignments derive from
    dirSrc,      \* the recorded set the directory's files were written from
    dirAsg,      \* the assignments of the finalize that wrote the directory
    catLast,     \* the last catalog call: what it was and how it ended
    gen,         \* the StableIdGenerator instance: _assignments, _recorder
    genFirst,    \* how the instance's first generate ended, and for which pair
    genLast,     \* the last generate call: what it was given and how it ended
    snap,        \* the snapshot the reader was built on: per part file, its lines
    iters,       \* the iter_entity generators: their locals and their position
    lastFileCount, \* SnapshotReader._last_file_count
    reg,         \* the EnumerationRegistry: its configs and its two caches
    regLast,     \* the last registry call: what it was given and how it ended
    regLoaded    \* the assignments of the finalize-written file last registered

emitterVars == <<seen, sink, emitLast>>
catalogVars == <<cat, refdir, recorded, first, src, dirSrc, dirAsg, catLast>>
generatorVars == <<gen, genFirst, genLast>>
readerVars == <<snap, iters, lastFileCount>>
registryVars == <<reg, regLast, regLoaded>>

vars == <<emitterVars, catalogVars, generatorVars, readerVars, registryVars>>

None == <<>>
Some(v) == <<v>>

Range(s) == {s[i] : i \in DOMAIN s}

----------------------------------------------------------------------------
(* TableEmitter                                                            *)

\* The longest sink the emitter model writes.
MaxSink == 3
\* The longest row sequence handed to emit_many.
MaxBatch == 2

EmitTables == {"edge", "fact"}

\* Column names.
F_id == <<"i", "d">>
F_value == <<"v">>
F_note == <<"n">>

\* dedupe_keys as handed to TableEmitter.__init__: "edge" has a composite
\* key, the enumeration table "region" is keyed by its id column, "fact"
\* has no key configured.
DedupeKeys ==
    [t \in {"edge", "region"} |->
        IF t = "edge" THEN <<F_id, F_value>> ELSE <<F_id>>]

\* The dict {id_column: id, value_column: value}
Row2(id_column, id, value_column, value) ==
    (id_column :> id) @@ (value_column :> value)

\* Rows of the emitter model: two rows that share a key and differ in a
\* payload cell, a row with another key, a row whose id is None and a row
\* that lacks the value field.
EmitRows ==
    { Row2(F_id, Some(1), F_value, Some(<<"x">>)),
      Row2(F_id, Some(1), F_value, Some(<<"x">>)) @@ (F_note :> Some(1)),
      Row2(F_id, Some(2), F_value, Some(<<"x">>)),
      Row2(F_id, None, F_value, Some(<<"x">>)),
      (F_id :> Some(1)) }

\* Rows handed to emit_many.
BatchRows ==
    { Row2(F_id, Some(1), F_value, Some(<<"x">>)),
      Row2(F_id, Some(2), F_value, Some(<<"x">>)),
      (F_id :> Some(1)) }

\* dict.get(field): None for a missing field.
RowGet(row, field) == IF field \in DOMAIN row THEN row[field] ELSE None

\* A slip in emit: only the first cell of the key is tested for None.
HasNoneFirst(key) == key # <<>> /\ key[1] = None

\* None in key
HasNone(key) == \E i \in DOMAIN key : key[i] = None

_build_key(row, fields) == [i \in DOMAIN fields |-> RowGet(row, fields[i])]

\* A slip in emit: every table is given the key of "edge".
KeyFieldsOfEdge(table) == DedupeKeys["edge"]

\* self._dedupe_keys.get(table): None (here the empty sequence, which is
\* falsy like None) for a table without a configured key.
KeyFieldsOf(table) == IF table \in DOMAIN DedupeKeys THEN DedupeKeys[table] ELSE <<>>

\* The tables the emitter is ever called with.
SeenTables == EmitTables \cup {"region"}

\* self._seen[table] of a defaultdict(set): a table never touched holds the
\* empty set.
SeenOf(sn, table) == sn[table]

\* CsvWriterManager.write_row(table, row): append the row to the table's sink.
write_row(sk, table, row) == Append(sk, <<table, row>>)

\* A slip in emit: the key is never remembered.
SeenAddForgets(sn, table, key) == sn

\* self._seen[table].add(key)
SeenAdd(sn, table, key) == [sn EXCEPT ![table] = @ \cup {key}]

\* TableEmitter.emit(table, row), with writeOk the outcome of the sink's
\* write_row (an I/O call that may raise).  The result is the emitter's
\* state after the call and how the call ended:
\*   "written"  the row reached the sink,      "skipped"  silent no-op,
\*   "ValueError" a key cell is None,           "IOError"  write_row raised.
emit(sn, sk, table, row, writeOk) ==
    LET key_fields == KeyFieldsOf(table)
        key == _build_key(row, key_fields)
        keyed == Len(key_fields) > 0
    IN  IF keyed /\ HasNone(key)
        THEN [seen |-> sn, sink |-> sk, outcome |-> "ValueError"]
        ELSE IF keyed /\ key \in SeenOf(sn, table)
        THEN [seen |-> sn, sink |-> sk, outcome |-> "skipped"]
        ELSE LET sn2 == IF keyed THEN SeenAdd(sn, table, key) ELSE sn
             IN  IF writeOk
                 THEN [seen |-> sn2, sink |-> write_row(sk, table, row),
                       outcome |-> "written"]
                 ELSE [seen |-> sn2, sink |-> sk, outcome |-> "IOError"]

\* A slip in emit_many: an exception from emit is swallowed and the loop
\* goes on.
RECURSIVE emit_manyGoesOn(_, _, _, _, _)
emit_manyGoesOn(sn, sk, table, rows, oks) ==
    IF rows = <<>>
    THEN [seen |-> sn, sink |-> sk, outcome |-> "returned"]
    ELSE LET r == emit(sn, sk, table, Head(rows), Head(oks))
         IN  emit_manyGoesOn(r.seen, r.sink, table, Tail(rows), Tail(oks))

\* TableEmitter.emit_many(table, rows): emit each row in order; an
\* exception from emit ends the loop.  oks[i] is the outcome of the i-th
\* row's write_row, should it be reached.
RECURSIVE emit_many(_, _, _, _, _)
emit_many(sn, sk, table, rows, oks) ==
    IF rows = <<>>
    THEN [seen |-> sn, sink |-> sk, outcome |-> "returned"]
    ELSE LET r == emit(sn, sk, table, Head(rows), Head(oks))
         IN  IF r.outcome \in {"ValueError", "IOError"}
             THEN r
             ELSE emit_many(r.seen, r.sink, table, Tail(rows), Tail(oks))

EmitterInit ==
    /\ seen = [t \in SeenTables |-> {}]
    /\ sink = << >>
    /\ emitLast = [op |-> "none"]

\* Whether emit(table, row) finds its key already in the seen-key set.
KeySeen(sn, table, row) ==
    /\ Len(KeyFieldsOf(table)) > 0
    /\ _build_key(row, KeyFieldsOf(table)) \in SeenOf(sn, table)

\* emit is called on one of the tables given.
EmitOn(Tables) ==
    \E table \in Tables, row \in EmitRows, writeOk \in BOOLEAN :
        LET r == emit(seen, sink, table, row, writeOk)
        IN  /\ Len(sink) < MaxSink
            /\ seen' = r.seen
            /\ sink' = r.sink
            /\ emitLast' = [op |-> "emit", table |-> table, row |-> row,
                            keySeen |-> KeySeen(seen, table, row),
                            sinkBefore |-> Len(sink),
                            outcome |-> r.outcome]
            /\ UNCHANGED <<catalogVars, generatorVars, readerVars, registryVars>>

Emit == EmitOn(EmitTables)

BatchesOf(S) == UNION {[1..n -> S] : n \in 0..MaxBatch}

\* emit_many is called on one of the tables given; failAt is the row whose
\* write_row raises (0: none does).  With track, the call's arguments are
\* kept with its outcome.
EmitManyOn(Tables, track) ==
    \E table \in Tables, rows \in BatchesOf(BatchRows) :
      \E failAt \in 0..Len(rows) :
        LET r == emit_many(seen, sink, table, rows,
                           [i \in DOMAIN rows |-> i # failAt])
        IN  /\ Len(sink) + Len(rows) <= MaxSink
            /\ seen' = r.seen
            /\ sink' = r.sink
            /\ emitLast' = [op |-> "emit_many", table |-> table,
                            rows |-> IF track THEN rows ELSE <<>>,
                            failAt |-> IF track THEN failAt ELSE 0,
                            sinkBefore |-> Len(sink),
                            outcome |-> r.outcome]
            /\ UNCHANGED <<catalogVars, generatorVars, readerVars, registryVars>>

EmitMany == EmitManyOn(EmitTables, FALSE)

EmitterNext == Emit \/ EmitMany

\* Single emits and batches on the table with a key, the arguments of
\* the batches kept.
EmitterBatchNext == EmitOn({"edge"}) \/ EmitManyOn({"edge"}, TRUE)

\* The rows the sink received for `table` whose dedup key is `key`.
WrittenWithKey(table, key) ==
    {i \in DOMAIN sink :
        /\ sink[i][1] = table
        /\ _build_key(sink[i][2], KeyFieldsOf(table)) = key}

\* C1: for every table with a configured dedup key the sink has received at
\* most one row per distinct key tuple, and an emit whose key was already
\* seen wrote nothing and raised nothing.
C1_AtMostOncePerKey ==
    /\ \A t \in DOMAIN DedupeKeys : \A i, j \in DOMAIN sink :
          (/\ sink[i][1] = t /\ sink[j][1] = t
           /\ _build_key(sink[i][2], DedupeKeys[t])
                = _build_key(sink[j][2], DedupeKeys[t])) => i = j
    /\ (emitLast.op = "emit" /\ emitLast.keySeen) =>
          /\ emitLast.outcome = "skipped"
          /\ Len(sink) = emitLast.sinkBefore

\* C1 witness: a keyed row was written and a second emit with the same key
\* was then swallowed.
C1_Witness ==
    /\ emitLast.op = "emit" /\ emitLast.keySeen
    /\ emitLast.outcome = "skipped"
    /\ WrittenWithKey(emitLast.table,
                      _build_key(emitLast.row, KeyFieldsOf(emitLast.table))) # {}

\* C24: an emit on a table without a configured dedup key hands the row to
\* the sink, be it a copy of a row written before or a row with None
\* fields: it ends written, or with the error the sink's write_row
\* raised, never with an error of the emitter and never skipped, and it
\* leaves every seen-key set as it was.
C24_UnkeyedAlwaysWritten ==
    [][(emitLast'.op = "emit" /\ emitLast'.table \notin DOMAIN DedupeKeys) =>
        /\ emitLast'.outcome \in {"written", "IOError"}
        /\ emitLast'.outcome = "written" =>
              sink' = Append(sink, <<emitLast'.table, emitLast'.row>>)
        /\ emitLast'.outcome = "IOError" => sink' = sink
        /\ seen' = seen]_vars

\* A row with a None field was written twice to the table without a key.
C24_Witness ==
    /\ emitLast.op = "emit" /\ emitLast.table = "fact"
    /\ emitLast.outcome = "written"
    /\ RowGet(emitLast.row, F_id) = None
    /\ Len(sink) >= 2
    /\ sink[Len(sink)] = <<"fact", emitLast.row>>
    /\ \E i \in 1..(Len(sink) - 1) : sink[i] = sink[Len(sink)]

\* emit(table, rows[1]), ..., emit(table, rows[k]) called one after the
\* other, up to the first that raises.
RECURSIVE AfterEmits(_, _, _, _, _, _)
AfterEmits(sn, sk, table, rows, oks, k) ==
    IF k = 0
    THEN [seen |-> sn, sink |-> sk, outcome |-> "returned"]
    ELSE LET prev == AfterEmits(sn, sk, table, rows, oks, k - 1)
         IN  IF prev.outcome \in {"ValueError", "IOError"}
             THEN prev
             ELSE LET r == emit(prev.seen, prev.sink, table, rows[k], oks[k])
                  IN  [r EXCEPT !.outcome =
                          IF @ \in {"ValueError", "IOError"} THEN @ ELSE "returned"]

\* Whether s is t with some elements left out.
RECURSIVE IsSubsequence(_, _)
IsSubsequence(s, t) ==
    IF s = <<>> THEN TRUE
    ELSE IF t = <<>> THEN FALSE
    ELSE IF Head(s) = Head(t) THEN IsSubsequence(Tail(s), Tail(t))
    ELSE IsSubsequence(s, Tail(t))

\* C25: emit_many(table, rows) leaves the emitter and the sink as the
\* calls emit(table, r), made for each r of rows in input order up to the
\* first that raises, leave them, and ends as the last of them ends; the
\* rows it wrote are a subsequence of the rows before the one that raised.
C25_EmitManyIsSequentialEmit ==
    [][emitLast'.op = "emit_many" =>
        LET rows == emitLast'.rows
            oks == [i \in DOMAIN rows |-> i # emitLast'.failAt]
            each == AfterEmits(seen, sink, emitLast'.table, rows, oks, Len(rows))
            raisedAt == {k \in DOMAIN rows :
                           AfterEmits(seen, sink, emitLast'.table, rows, oks, k).outcome
                               # "returned"}
            reached == IF raisedAt = {} THEN rows
                       ELSE SubSeq(rows, 1, (CHOOSE k \in raisedAt :
                                               \A j \in raisedAt : k <= j) - 1)
            written == SubSeq(sink', Len(sink) + 1, Len(sink'))
        IN  /\ seen' = each.seen
            /\ sink' = each.sink
            /\ emitLast'.outcome = each.outcome
            /\ SubSeq(sink', 1, Len(sink)) = sink
            /\ IsSubsequence([i \in DOMAIN written |-> written[i][2]], reached)
            /\ \A i \in DOMAIN written : written[i][1] = emitLast'.table]_vars

\* A batch of two rows whose first was written and whose second raised.
C25_Witness ==
    /\ emitLast.op = "emit_many"
    /\ Len(emitLast.rows) = 2
    /\ emitLast.outcome \in {"ValueError", "IOError"}
    /\ Len(sink) = emitLast.sinkBefore + 1
    /\ sink[Len(sink)] = <<emitLast.table, emitLast.rows[1]>>

\* C29: a key tuple is in a table's seen-key set only if the sink has
\* received a row of that table with that key, also after a write_row of
\* the sink has raised.
C29_SeenOnlyIfWritten ==
    \A t \in SeenTables : \A key \in SeenOf(seen, t) :
        WrittenWithKey(t, key) # {}

\* Whether a dedup-key field of the table is missing from the row or None.
KeyCellMissing(table, row) ==
    \E i \in DOMAIN KeyFieldsOf(table) :
        \/ KeyFieldsOf(table)[i] \notin DOMAIN row
        \/ row[KeyFieldsOf(table)[i]] = None

\* C11: an emit on a table with a configured dedup key, given a row in
\* which a key field is missing or None, raises an error, writes nothing to
\* the sink and leaves the table's seen-key set as it was.
C11_MissingKeyRaises ==
    [][(emitLast'.op = "emit"
          /\ KeyCellMissing(emitLast'.table, emitLast'.row)) =>
        /\ emitLast'.outcome = "ValueError"
        /\ sink' = sink
        /\ seen'[emitLast'.table] = seen[emitLast'.table]]_vars

\* C11 witness: an emit of a row that lacks a key field raised, after
\* rows of the table had been written and their keys remembered.
C11_Witness ==
    /\ emitLast.op = "emit" /\ emitLast.outcome = "ValueError"
    /\ F_value \notin DOMAIN emitLast.row
    /\ seen[emitLast.table] # {}
    /\ Len(sink) > 0

----------------------------------------------------------------------------
(* Strings                                                                 *)

TAB == "\t"
COMMA == ","
QUOTE == "\""
CR == "\r"
LF == "\n"
SPACE == " "

\* ord(c) for the characters the model uses.
Ord(c) ==
    CASE c = TAB -> 9 [] c = LF -> 10 [] c = CR -> 13 [] c = SPACE -> 32
      [] c = QUOTE -> 34 [] c = "+" -> 43 [] c = COMMA -> 44 [] c = "-" -> 45
      [] c = "0" -> 48 [] c = "1" -> 49 [] c = "2" -> 50 [] c = "3" -> 51
      [] c = "4" -> 52 [] c = "5" -> 53 [] c = "6" -> 54 [] c = "7" -> 55
      [] c = "8" -> 56 [] c = "9" -> 57
      [] c = "A" -> 65 [] c = "B" -> 66 [] c = "U" -> 85 [] c = "_" -> 95
      [] c = "a" -> 97 [] c = "b" -> 98 [] c = "d" -> 100 [] c = "i" -> 105
      [] c = "u" -> 117 [] c = "v" -> 118 [] c = "x" -> 120

\* str.casefold() of one character.
FoldChar(c) ==
    CASE c = "A" -> "a" [] c = "B" -> "b" [] c = "U" -> "u" [] OTHER -> c

casefold(text) == [i \in DOMAIN text |-> FoldChar(text[i])]

\* text1 < text2 for Python strings: lexicographic by code point.
RECURSIVE StrLess(_, _)
StrLess(s, t) ==
    IF t = <<>> THEN FALSE
    ELSE IF s = <<>> THEN TRUE
    ELSE IF Head(s) = Head(t) THEN StrLess(Tail(s), Tail(t))
    ELSE Ord(Head(s)) < Ord(Head(t))

\* str.strip(): drop leading and trailing whitespace.
IsSpace(c) == c \in {SPACE, TAB, CR, LF}

RECURSIVE lstrip(_)
lstrip(s) == IF s # <<>> /\ IsSpace(Head(s)) THEN lstrip(Tail(s)) ELSE s

RECURSIVE rstrip(_)
rstrip(s) ==
    IF s # <<>> /\ IsSpace(s[Len(s)]) THEN rstrip(SubSeq(s, 1, Len(s) - 1)) ELSE s

strip(s) == rstrip(lstrip(s))

Digits == <<"0", "1", "2", "3", "4", "5", "6", "7", "8", "9">>

\* str(n) of an int.
RECURSIVE NatToStr(_)
NatToStr(n) ==
    IF n < 10 THEN <<Digits[n + 1]>>
    ELSE NatToStr(n \div 10) \o <<Digits[(n % 10) + 1]>>

IntToStr(n) == IF n < 0 THEN <<"-">> \o NatToStr(0 - n) ELSE NatToStr(n)

DigitValue(c) == CHOOSE d \in 0..9 : Digits[d + 1] = c

IsDigit(c) == \E d \in 0..9 : Digits[d + 1] = c

\* The digits of an int literal: one or more digits, single underscores
\* allowed between digits.  None when the text is no such literal.
RECURSIVE ParseDigits(_, _, _)
ParseDigits(s, acc, afterDigit) ==
    IF s = <<>> THEN (IF afterDigit THEN Some(acc) ELSE None)
    ELSE IF IsDigit(Head(s))
         THEN ParseDigits(Tail(s), 10 * acc + DigitValue(Head(s)), TRUE)
    ELSE IF Head(s) = "_" /\ afterDigit
         THEN ParseDigits(Tail(s), acc, FALSE)
    ELSE None

\* A slip in the reader: an id that is no integer is read as 0.
ParseIntOrZero(text) ==
    LET mag == ParseDigits(strip(text), 0, FALSE)
    IN  IF mag = None THEN Some(0) ELSE mag

\* int(text): Some(n), or None where Python raises ValueError.  Surrounding
\* whitespace and a sign are accepted.
ParseInt(text) ==
    LET s == strip(text)
        signed == s # <<>> /\ Head(s) \in {"+", "-"}
        body == IF signed THEN Tail(s) ELSE s
        mag == ParseDigits(body, 0, FALSE)
    IN  IF mag = None THEN None
        ELSE IF signed /\ Head(s) = "-" THEN Some(0 - mag[1]) ELSE mag

RECURSIVE Join(_, _)
Join(cells, sep) ==
    IF cells = <<>> THEN <<>>
    ELSE IF Len(cells) = 1 THEN cells[1]
    ELSE cells[1] \o <<sep>> \o Join(Tail(cells), sep)

----------------------------------------------------------------------------
(* The csv module, as IdCatalog and EnumerationRegistry use it             *)

\* csv.writer's QUOTE_MINIMAL: a cell is quoted when it holds the delimiter,
\* the quote character or a line-terminator character; quotes are doubled.
NeedsQuote(cell, delim) ==
    \E i \in DOMAIN cell : cell[i] \in {delim, QUOTE, CR, LF}

RECURSIVE DoubleQuotes(_)
DoubleQuotes(cell) ==
    IF cell = <<>> THEN <<>>
    ELSE (IF Head(cell) = QUOTE THEN <<QUOTE, QUOTE>> ELSE <<Head(cell)>>)
             \o DoubleQuotes(Tail(cell))

\* A slip in the writer: cells are written as they are, never quoted.
CsvCellUnquoted(cell, delim) == cell

CsvCell(cell, delim) ==
    IF NeedsQuote(cell, delim)
    THEN <<QUOTE>> \o DoubleQuotes(cell) \o <<QUOTE>>
    ELSE cell

\* csv.writer.writerow: the cells joined by the delimiter, ended by "\r\n".
CsvLine(cells, delim) ==
    Join([i \in DOMAIN cells |-> CsvCell(cells[i], delim)], delim)
        \o <<CR, LF>>

\* csv.reader over the text of a file opened with newline="": the records
\* of the text, each a sequence of cells.  st is the parser's state, field
\* the cell being read, fields the cells of the record so far.
RECURSIVE CsvScan(_, _, _, _, _, _, _)
CsvScan(text, i, st, field, fields, rows, delim) ==
    IF i > Len(text)
    THEN IF st \in {"START_RECORD", "EAT_CR"}
         THEN rows
         ELSE Append(rows, Append(fields, field))
    ELSE
    LET c == text[i]
        next(st2, field2, fields2, rows2) ==
            CsvScan(text, i + 1, st2, field2, fields2, rows2, delim)
        endRecord(fs) ==
            next(IF c = CR THEN "EAT_CR" ELSE "START_RECORD", <<>>, <<>>,
                 Append(rows, fs))
    IN  CASE st = "EAT_CR" /\ c = LF -> next("START_RECORD", <<>>, <<>>, rows)
          [] st \in {"START_RECORD", "EAT_CR"} /\ c \in {CR, LF} /\ ~(st = "EAT_CR" /\ c = LF) ->
                endRecord(<<>>)
          [] st \in {"START_RECORD", "EAT_CR", "START_FIELD"} /\ c \notin {CR, LF} ->
                IF c = QUOTE THEN next("IN_QUOTED_FIELD", <<>>, fields, rows)
                ELSE IF c = delim
                     THEN next("START_FIELD", <<>>, Append(fields, <<>>), rows)
                ELSE next("IN_FIELD", <<c>>, fields, rows)
          [] st = "START_FIELD" /\ c \in {CR, LF} ->
                endRecord(Append(fields, <<>>))
          [] st = "IN_FIELD" ->
                IF c \in {CR, LF} THEN endRecord(Append(fields, field))
                ELSE IF c = delim
                     THEN next("START_FIELD", <<>>, Append(fields, field), rows)
                ELSE next("IN_FIELD", Append(field, c), fields, rows)
          [] st = "IN_QUOTED_FIELD" ->
                IF c = QUOTE THEN next("QUOTE_IN_QUOTED_FIELD", field, fields, rows)
                ELSE next("IN_QUOTED_FIELD", Append(field, c), fields, rows)
          [] st = "QUOTE_IN_QUOTED_FIELD" ->
                IF c = QUOTE THEN next("IN_QUOTED_FIELD", Append(field, c), fields, rows)
                ELSE IF c = delim
                     THEN next("START_FIELD", <<>>, Append(fields, field), rows)
                ELSE IF c \in {CR, LF} THEN endRecord(Append(fields, field))
                ELSE next("IN_FIELD", Append(field, c), fields, rows)

CsvRecords(text, delim) == CsvScan(text, 1, "START_RECORD", <<>>, <<>>, <<>>, delim)

\* One row of csv.DictReader: dict(zip(fieldnames, cells)), a field name
\* beyond the row's cells mapped to None; then row.get(column).
DictRowGet(fieldnames, cells, column) ==
    LET idxs == {i \in DOMAIN fieldnames : fieldnames[i] = column}
    IN  IF idxs = {} \/ \E i \in idxs : i > Len(cells)
        THEN None
        ELSE Some(cells[CHOOSE i \in idxs : \A j \in idxs : j <= i])

\* The data rows csv.DictReader yields: the records after the first, the
\* empty ones skipped.
DictRows(records) ==
    IF records = <<>> THEN <<>>
    ELSE SelectSeq(Tail(records), LAMBDA r : r # <<>>)

----------------------------------------------------------------------------
(* IdCatalog                                                               *)

\* The distinct values one catalog records.
MaxRecorded == 3

CatIds == {1, 2}

\* enum_configs and namespace_configs as handed to IdCatalog.__init__ (both
\* catalogs are built with the same configuration): one enumeration table
\* without a reference_filename and one namespace.
EnumConfigs ==
    [region |-> [table |-> "region", id_column |-> F_id,
                 value_column |-> F_value, bits |-> 16,
                 reference_filename |-> None, normalise |-> None]]

NamespaceConfigs ==
    [ror |-> [namespace |-> "ror", filename |-> "ror.csv",
              id_column |-> F_id, value_column |-> F_value]]

\* The namespaces record_namespace is called with: _namespace_values is a
\* defaultdict, so a namespace needs no configuration to be recorded.
NamespaceNames == {"ror", "grid"}

\* f"{table}.csv"
TableCsv == [region |-> "region.csv"]

\* config.reference_filename or f"{table}.csv"
EnumFilename(config) ==
    IF config.reference_filename # None
    THEN config.reference_filename[1]
    ELSE TableCsv[config.table]

FileNames == {"region.csv", "ror.csv"}

\* The values handed to record_enum / record_namespace: the empty string,
\* values that differ in case only, and a value that holds a quote, the
\* delimiters and a space.
CatValues ==
    { <<>>, <<"a">>, <<"B">>, <<"b">>, <<QUOTE, TAB, COMMA, SPACE>> }

\* The values recorded where two catalogs are compared.
PairValues == { <<>>, <<"b">>, <<"B">> }

\* A slip in the key: the values are ordered as they are, case and all.
KeyLessRaw(u, v) == StrLess(u, v)

\* The key of sorted(): (text.casefold(), text), compared as a tuple.
KeyLess(u, v) ==
    \/ StrLess(casefold(u), casefold(v))
    \/ casefold(u) = casefold(v) /\ StrLess(u, v)

\* sorted(values, key=...): the values in ascending order of the key.
RECURSIVE sorted(_)
sorted(values) ==
    IF values = {} THEN <<>>
    ELSE LET least == CHOOSE v \in values :
                          \A w \in values \ {v} : KeyLess(v, w)
         IN  <<least>> \o sorted(values \ {least})

\* A slip in _assign: a value is numbered by its case-folded rank, so
\* values that differ in case only share a number.
_assignFoldRank(values) ==
    [v \in values |->
        1 + Cardinality({w \in values : StrLess(casefold(w), casefold(v))})]

\* A slip in _assign: enumerate starts at 0.
_assignFromZero(values) ==
    LET ordered == sorted(values)
    IN  [v \in values |-> (CHOOSE i \in DOMAIN ordered : ordered[i] = v) - 1]

\* IdCatalog._assign: {value: index for index, value in enumerate(ordered, 1)}
_assign(values) ==
    LET ordered == sorted(values)
    IN  [v \in values |-> CHOOSE i \in DOMAIN ordered : ordered[i] = v]

\* IdCatalog._write_records: the text of the file written: the header line
\* and one line per record, tab-delimited.  The records of finalize are the
\* assignments' items in dict order, which is the sorted order.
_write_records(headers, values, assignments) ==
    LET ordered == sorted(values)
        line[i \in DOMAIN ordered] ==
            CsvLine(<<IntToStr(assignments[ordered[i]]), ordered[i]>>, TAB)
        RECURSIVE Concat(_)
        Concat(i) == IF i > Len(ordered) THEN <<>> ELSE line[i] \o Concat(i + 1)
    IN  CsvLine(headers, TAB) \o Concat(1)

\* handle.read(2048)
SampleSize == 2048

\* A slip in the reader: the file is always read as comma-separated.
DetectDelimiterComma(text) == COMMA

\* "\t" if "\t" in sample else ","
DetectDelimiter(text) ==
    LET sample == SubSeq(text, 1, IF Len(text) < SampleSize THEN Len(text) ELSE SampleSize)
    IN  IF \E i \in DOMAIN sample : sample[i] = TAB THEN TAB ELSE COMMA


\* The loop of _read_assignments over the rows of the DictReader: a row
\* with an empty or missing cell, or whose id is no integer, is skipped; a
\* later row of the same value overwrites an earlier one.
RECURSIVE ReadRows(_, _, _, _, _)
ReadRows(fieldnames, rows, id_column, value_column, assignments) ==
    IF rows = <<>> THEN assignments
    ELSE
    LET raw_id == DictRowGet(fieldnames, Head(rows), id_column)
        raw_value == DictRowGet(fieldnames, Head(rows), value_column)
        skip == raw_id \in {None, Some(<<>>)} \/ raw_value \in {None, Some(<<>>)}
        parsed == IF skip THEN None ELSE ParseInt(raw_id[1])
        rest(a) == ReadRows(fieldnames, Tail(rows), id_column, value_column, a)
    IN  IF skip \/ parsed = None
        THEN rest(assignments)
        ELSE rest([v \in DOMAIN assignments \cup {raw_value[1]} |->
                      IF v = raw_value[1] THEN parsed[1] ELSE assignments[v]])

EmptyDict == [v \in {} |-> 0]

\* IdCatalog._read_assignments(path, id_column, value_column) on the text
\* of the file at path.
_read_assignments(text, id_column, value_column) ==
    LET records == CsvRecords(text, DetectDelimiter(text))
    IN  IF records = <<>> THEN EmptyDict
        ELSE ReadRows(records[1], DictRows(records), id_column, value_column,
                      EmptyDict)

\* IdCatalog.__init__: nothing recorded, no assignments (the two
\* assignment dicts have no table yet: None stands for the missing key).
NewCatalog ==
    [enum_values |-> [t \in DOMAIN EnumConfigs |-> {}],
     namespace_values |-> [n \in NamespaceNames |-> {}],
     enum_assignments |-> [t \in DOMAIN EnumConfigs |-> None],
     namespace_assignments |-> [n \in DOMAIN NamespaceConfigs |-> None]]

\* A slip in record_*: a value equal to a recorded one up to case is dropped.
AddValueFolded(values, value) ==
    IF \E w \in values : casefold(w) = casefold(value)
    THEN values ELSE values \cup {value}

\* self._enum_values[table].add(value)
AddValue(values, value) == values \cup {value}

\* IdCatalog.record_enum(table, value)
record_enum(c, table, value) ==
    IF value # <<>>
    THEN [c EXCEPT !.enum_values[table] = AddValue(@, value)]
    ELSE c

\* IdCatalog.record_namespace(namespace, value)
record_namespace(c, namespace, value) ==
    IF value # <<>>
    THEN [c EXCEPT !.namespace_values[namespace] = AddValue(@, value)]
    ELSE c

\* IdCatalog.finalize: the catalog after the call.
finalize(c) ==
    [c EXCEPT
        !.enum_assignments =
            [t \in DOMAIN EnumConfigs |-> Some(_assign(c.enum_values[t]))],
        !.namespace_assignments =
            [n \in DOMAIN NamespaceConfigs |-> Some(_assign(c.namespace_values[n]))]]

\* IdCatalog.finalize: the directory after the call.  mkdir creates it, and
\* one file is written per configured table and namespace.
finalize_dir(c, dir) ==
    LET enumFile(f) ==
            {t \in DOMAIN EnumConfigs : EnumFilename(EnumConfigs[t]) = f}
        nsFile(f) ==
            {n \in DOMAIN NamespaceConfigs : NamespaceConfigs[n].filename = f}
        written(f) ==
            IF nsFile(f) # {}
            THEN LET n == CHOOSE n \in nsFile(f) : TRUE
                     cfg == NamespaceConfigs[n]
                 IN  Some(_write_records(<<cfg.id_column, cfg.value_column>>,
                                         c.namespace_values[n],
                                         _assign(c.namespace_values[n])))
            ELSE IF enumFile(f) # {}
            THEN LET t == CHOOSE t \in enumFile(f) : TRUE
                     cfg == EnumConfigs[t]
                 IN  Some(_write_records(<<cfg.id_column, cfg.value_column>>,
                                         c.enum_values[t],
                                         _assign(c.enum_values[t])))
            ELSE dir.files[f]
    IN  [exists |-> TRUE, files |-> [f \in FileNames |-> written(f)]]

\* A slip in load_existing: only the tables' files are looked for.
load_okTablesOnly(dir) ==
    /\ dir.exists
    /\ \A t \in DOMAIN EnumConfigs : dir.files[EnumFilename(EnumConfigs[t])] # None

\* path.open(...).read(): the text of a file (a missing file, which
\* load_existing never opens, reads as nothing).
ReadText(file) == IF file = None THEN <<>> ELSE file[1]

\* IdCatalog.load_existing: whether it returns True.
load_ok(dir) ==
    /\ dir.exists
    /\ \A t \in DOMAIN EnumConfigs : dir.files[EnumFilename(EnumConfigs[t])] # None
    /\ \A n \in DOMAIN NamespaceConfigs : dir.files[NamespaceConfigs[n].filename] # None

\* A slip in load_existing: each table's assignments are stored as its
\* file is parsed, before a missing namespace file is found.
load_existingEager(c, dir) ==
    IF ~load_okTablesOnly(dir) THEN c
    ELSE LET tables == [c EXCEPT
                !.enum_assignments =
                    [t \in DOMAIN EnumConfigs |->
                        Some(_read_assignments(
                            ReadText(dir.files[EnumFilename(EnumConfigs[t])]),
                            EnumConfigs[t].id_column, EnumConfigs[t].value_column))]]
         IN  IF ~load_ok(dir) THEN tables
             ELSE [tables EXCEPT
                     !.namespace_assignments =
                         [n \in DOMAIN NamespaceConfigs |->
                             Some(_read_assignments(
                                 ReadText(dir.files[NamespaceConfigs[n].filename]),
                                 NamespaceConfigs[n].id_column,
                                 NamespaceConfigs[n].value_column))]]

\* IdCatalog.load_existing: the catalog after the call.
load_existing(c, dir) ==
    IF ~load_ok(dir) THEN c
    ELSE [c EXCEPT
            !.enum_assignments =
                [t \in DOMAIN EnumConfigs |->
                    Some(_read_assignments(
                        ReadText(dir.files[EnumFilename(EnumConfigs[t])]),
                        EnumConfigs[t].id_column, EnumConfigs[t].value_column))],
            !.namespace_assignments =
                [n \in DOMAIN NamespaceConfigs |->
                    Some(_read_assignments(
                        ReadText(dir.files[NamespaceConfigs[n].filename]),
                        NamespaceConfigs[n].id_column,
                        NamespaceConfigs[n].value_column))]]

CatalogInit ==
    /\ cat = [c \in CatIds |-> NewCatalog]
    /\ refdir = [exists |-> FALSE, files |-> [f \in FileNames |-> None]]
    /\ recorded = [c \in CatIds |-> {}]
    /\ first = [c \in CatIds |-> None]
    /\ src = [c \in CatIds |-> None]
    /\ dirSrc = None
    /\ dirAsg = None
    /\ catLast = [op |-> "none"]

\* What the record_* calls of a catalog were given, as a set.
RecordedAfter(c, name, value) ==
    IF value # <<>>
    THEN [recorded EXCEPT ![c] = @ \cup {<<name, value>>}]
    ELSE recorded

FirstAfter(c, name, value) ==
    IF value # <<>> /\ first[c] = None
    THEN [first EXCEPT ![c] = Some(<<name, value>>)]
    ELSE first

\* A record_* call is taken while the catalog has room for its value.
HasRoom(c, name, value) ==
    Cardinality(recorded[c] \cup {<<name, value>>}) <= MaxRecorded

LastRecord(c, name, value) ==
    [op |-> "record", cat |-> c, again |-> <<name, value>> \in recorded[c]]

\* record_enum / record_namespace called with any table and value; the
\* call is noted in catLast where `track` says so.
RecordEnum(c, Values, track) ==
    \E table \in DOMAIN EnumConfigs, value \in Values :
        /\ HasRoom(c, table, value)
        /\ cat' = [cat EXCEPT ![c] = record_enum(@, table, value)]
        /\ recorded' = RecordedAfter(c, table, value)
        /\ first' = FirstAfter(c, table, value)
        /\ catLast' = IF track THEN LastRecord(c, table, value) ELSE catLast
        /\ UNCHANGED <<refdir, src, dirSrc, dirAsg, emitterVars, generatorVars,
                     readerVars, registryVars>>

RecordNamespace(c, Values, track) ==
    \E namespace \in DOMAIN NamespaceConfigs, value \in Values :
        /\ HasRoom(c, namespace, value)
        /\ cat' = [cat EXCEPT ![c] = record_namespace(@, namespace, value)]
        /\ recorded' = RecordedAfter(c, namespace, value)
        /\ first' = FirstAfter(c, namespace, value)
        /\ catLast' = IF track THEN LastRecord(c, namespace, value) ELSE catLast
        /\ UNCHANGED <<refdir, src, dirSrc, dirAsg, emitterVars, generatorVars,
                     readerVars, registryVars>>

\* The assignment dicts of a catalog, by table or namespace name (the names
\* of the tables and of the namespaces are distinct).
AssignmentsOf(c) ==
    [name \in DOMAIN EnumConfigs \cup DOMAIN NamespaceConfigs |->
        IF name \in DOMAIN EnumConfigs
        THEN c.enum_assignments[name] ELSE c.namespace_assignments[name]]

ConfigNames == DOMAIN EnumConfigs \cup DOMAIN NamespaceConfigs

\* The canonical order of values: case-insensitive, the original string
\* breaking ties.
CanonicalBefore(u, v) ==
    \/ StrLess(casefold(u), casefold(v))
    \/ casefold(u) = casefold(v) /\ StrLess(u, v)

\* Whether a value keeps its place: the values ordered before it are the
\* same in both assignments.
SamePredecessors(old, new, v) ==
    {w \in DOMAIN old : CanonicalBefore(w, v)}
        = {w \in DOMAIN new : CanonicalBefore(w, v)}

\* Whether finalize on catalog c is an incremental update that leaves a
\* value its place: some value had an ID before, values were added, and
\* none of them is ordered before it.
Incremental(c) ==
    \E name \in ConfigNames :
        LET old == AssignmentsOf(c)[name]
            new == AssignmentsOf(finalize(c))[name]
        IN  /\ old # None
            /\ DOMAIN new[1] \ DOMAIN old[1] # {}
            /\ \E v \in DOMAIN old[1] \cap DOMAIN new[1] :
                  SamePredecessors(old[1], new[1], v)

Finalize(c, last) ==
    /\ cat' = [cat EXCEPT ![c] = finalize(@)]
    /\ refdir' = finalize_dir(cat[c], refdir)
    /\ src' = [src EXCEPT ![c] = Some(recorded[c])]
    /\ dirSrc' = Some(recorded[c])
    /\ dirAsg' = Some(AssignmentsOf(finalize(cat[c])))
    /\ catLast' = last
    /\ UNCHANGED <<recorded, first, emitterVars, generatorVars,
                     readerVars, registryVars>>

LoadExisting(c, last) ==
    /\ cat' = [cat EXCEPT ![c] = load_existing(@, refdir)]
    /\ src' = [src EXCEPT ![c] = IF load_ok(refdir) THEN dirSrc ELSE @]
    /\ catLast' = last
    /\ UNCHANGED <<refdir, recorded, first, dirSrc, dirAsg, emitterVars, generatorVars,
                     readerVars, registryVars>>

LastFinalize(c) ==
    [op |-> "finalize", cat |-> c, ret |-> TRUE,
     incremental |-> Incremental(cat[c])]

LastLoad(c) == [op |-> "load_existing", cat |-> c, ret |-> load_ok(refdir)]

\* One catalog, recording, finalizing and reloading.
CatalogNext ==
    \/ RecordEnum(1, CatValues, TRUE)
    \/ RecordNamespace(1, CatValues, TRUE)
    \/ Finalize(1, LastFinalize(1))
    \/ LoadExisting(1, LastLoad(1))

\* A reference file is deleted from the directory.
RemoveReferenceFile ==
    \E f \in FileNames :
        /\ refdir.exists /\ refdir.files[f] # None
        /\ refdir' = [refdir EXCEPT !.files[f] = None]
        /\ catLast' = [op |-> "remove"]
        /\ UNCHANGED <<cat, recorded, first, src, dirSrc, dirAsg,
                       emitterVars, generatorVars, readerVars, registryVars>>

\* One catalog over a directory that loses files.
CatalogDirNext ==
    \/ RecordEnum(1, CatValues, TRUE)
    \/ RecordNamespace(1, CatValues, TRUE)
    \/ Finalize(1, LastFinalize(1))
    \/ RemoveReferenceFile
    \/ LoadExisting(1, LastLoad(1))

\* Two catalogs of the same configuration over one reference directory:
\* two runs that record in any order and finalize, and a reload.
CatalogPairNext ==
    \/ \E c \in CatIds :
          \/ RecordEnum(c, PairValues, FALSE)
          \/ RecordNamespace(c, PairValues, FALSE)
          \/ Finalize(c, catLast)
    \/ LoadExisting(1, catLast)

\* C2: two catalogs whose assignments derive (by finalize, or by reloading
\* the files a finalize wrote) from the same set of recorded values hold
\* identical assignments, whatever the order and the repetitions of the
\* record_* calls; and reloading the directory's files into a catalog
\* whose assignments derive from the set they were written from yields
\* that same mapping.
C2_OrderIndependent ==
    /\ \A c1, c2 \in CatIds :
          (src[c1] # None /\ src[c1] = src[c2]) =>
              AssignmentsOf(cat[c1]) = AssignmentsOf(cat[c2])
    /\ \A c \in CatIds :
          (src[c] # None /\ src[c] = dirSrc) =>
              /\ load_ok(refdir)
              /\ AssignmentsOf(load_existing(cat[c], refdir)) = AssignmentsOf(cat[c])

\* C2 witness: both catalogs hold assignments for the same two values of a
\* table, recorded in different orders.
C2_Witness ==
    /\ src[1] # None /\ src[1] = src[2]
    /\ first[1] # first[2]
    /\ \E name \in ConfigNames :
          Cardinality({p \in src[1][1] : p[1] = name}) >= 2
    /\ AssignmentsOf(cat[1]) = AssignmentsOf(cat[2])

\* The IDs two assignments of a table or namespace give the values they
\* share, compared: `same` says when an ID has to be the same.
Renumbers(old, new, same(_, _, _)) ==
    \E v \in DOMAIN old \cap DOMAIN new : same(old, new, v) /\ new[v] # old[v]

Injective(f) == \A v, w \in DOMAIN f : f[v] = f[w] => v = w

\* C4: in every reachable state each table's and namespace's assignment is
\* injective: no two distinct values share an ID.
C4_Injective ==
    \A c \in CatIds, name \in ConfigNames :
        AssignmentsOf(cat[c])[name] # None =>
            Injective(AssignmentsOf(cat[c])[name][1])

\* C4 witness: assignments just reloaded from the directory that hold two
\* values differing in case only.
C4_Witness ==
    /\ catLast.op = "load_existing" /\ catLast.ret
    /\ \E name \in ConfigNames :
          {<<"b">>, <<"B">>} \subseteq DOMAIN AssignmentsOf(cat[1])[name][1]

\* The values recorded into catalog c for a table or namespace.
RecordedFor(c, name) == {p[2] : p \in {q \in recorded[c] : q[1] = name}}

\* C12: finalize gives each configured table and namespace whose N distinct
\* recorded values are V exactly the IDs 1..N, one per value, the ID of a
\* value being its 1-based rank in ascending order of (case-folded value,
\* value); with nothing recorded the assignment is empty.
C12_DenseRank ==
    catLast.op = "finalize" =>
        \A name \in ConfigNames :
            LET a == AssignmentsOf(cat[1])[name]
                V == RecordedFor(1, name)
            IN  /\ a # None
                /\ DOMAIN a[1] = V
                /\ {a[1][v] : v \in V} = 1..Cardinality(V)
                /\ \A v \in V :
                      a[1][v] = 1 + Cardinality({w \in V : CanonicalBefore(w, v)})

\* C12 witness: a finalize over a table with three values, two of which
\* differ in case only, and a namespace with none.
C12_Witness ==
    /\ catLast.op = "finalize"
    /\ RecordedFor(1, "region") = {<<"a">>, <<"B">>, <<"b">>}
    /\ RecordedFor(1, "ror") = {}
    /\ AssignmentsOf(cat[1])["ror"] = Some(EmptyDict)

\* The reference files load_existing requires.
RequiredFiles ==
    {EnumFilename(EnumConfigs[t]) : t \in DOMAIN EnumConfigs}
        \cup {NamespaceConfigs[n].filename : n \in DOMAIN NamespaceConfigs}

\* C13: load_existing returns false whenever the directory does not exist
\* or the file of some configured table or namespace is absent from it; it
\* returns true only with every such file present.
C13_FailsClosed ==
    catLast.op = "load_existing" =>
        ((~refdir.exists \/ \E f \in RequiredFiles : refdir.files[f] = None)
            => ~catLast.ret)

\* C13 witness: load_existing returned false on a directory that exists
\* and holds the table's file but not the namespace's.
C13_Witness ==
    /\ catLast.op = "load_existing" /\ ~catLast.ret
    /\ refdir.exists
    /\ refdir.files["region.csv"] # None
    /\ refdir.files["ror.csv"] = None

\* The rows a reference file kept by hand may hold, as lists of cells:
\* two well-formed rows, and rows whose id is no integer, whose id is
\* empty, whose value is empty, and whose value cell is missing.
MaxFileRows == 3
GoodAssignments == (<<"a">> :> 1) @@ (<<"b">> :> 2)
GoodRows == {<<IntToStr(GoodAssignments[v]), v>> : v \in DOMAIN GoodAssignments}
BadRows ==
    { << <<"x">>, <<"a">> >>, << <<>>, <<"b">> >>,
      << <<"3">>, <<>> >>, << <<"3">> >> }
FileRows == UNION {[1..n -> GoodRows \cup BadRows] : n \in 0..MaxFileRows}

\* The text of a file of the given rows under the header id, value.
RECURSIVE FileLines(_, _)
FileLines(rows, delim) ==
    IF rows = <<>> THEN <<>>
    ELSE CsvLine(Head(rows), delim) \o FileLines(Tail(rows), delim)
FileText(rows, delim) == CsvLine(<<F_id, F_value>>, delim) \o FileLines(rows, delim)

\* The table's reference file is put in the directory by hand, tab- or
\* comma-separated, next to a namespace file without rows.
PlaceRows ==
    /\ ~refdir.exists
    /\ \E rows \in FileRows, delim \in {TAB, COMMA} :
          /\ refdir' = [exists |-> TRUE,
                        files |-> [f \in FileNames |->
                                     IF f = "region.csv"
                                     THEN Some(FileText(rows, delim))
                                     ELSE Some(FileText(<<>>, TAB))]]
          /\ catLast' = [op |-> "place", rows |-> rows]
    /\ UNCHANGED <<cat, recorded, first, src, dirSrc, dirAsg,
                   emitterVars, generatorVars, readerVars, registryVars>>

LastLoadRows(c) ==
    [op |-> "load_existing", cat |-> c, ret |-> load_ok(refdir),
     rows |-> catLast.rows]

\* load_existing on the directory once the files are there.
LoadPlaced ==
    /\ catLast.op # "none"
    /\ LoadExisting(1, LastLoadRows(1))

\* A catalog loads a directory of files kept by hand.
CatalogReadNext == PlaceRows \/ LoadPlaced

\* C26: load_existing on a file with malformed rows returns true, and the
\* table's assignments are those of the file's well-formed rows, all of
\* them: a row whose id is no integer, or whose id or value cell is empty
\* or missing, contributes nothing.
C26_MalformedRowsSkipped ==
    (catLast.op = "load_existing" /\ "rows" \in DOMAIN catLast) =>
        LET good == {v \in DOMAIN GoodAssignments :
                        \E i \in DOMAIN catLast.rows :
                            catLast.rows[i] = <<IntToStr(GoodAssignments[v]), v>>}
        IN  /\ catLast.ret
            /\ cat[catLast.cat].enum_assignments["region"]
                   = Some([v \in good |-> GoodAssignments[v]])

\* A file with a malformed row between two well-formed ones was loaded.
C26_Witness ==
    /\ catLast.op = "load_existing" /\ "rows" \in DOMAIN catLast
    /\ Len(catLast.rows) = 3
    /\ catLast.rows[1] \in GoodRows /\ catLast.rows[3] \in GoodRows
    /\ catLast.rows[1] # catLast.rows[3]
    /\ catLast.rows[2] = << <<"x">>, <<"a">> >>
    /\ catLast.rows[3][2] = <<"a">>
    /\ cat[1].enum_assignments["region"] = Some(GoodAssignments)

\* A catalog writes the reference files, files are deleted, and a second
\* catalog of the same configuration loads the directory time and again.
CatalogFrameNext ==
    \/ RecordEnum(1, PairValues, FALSE)
    \/ Finalize(1, LastFinalize(1))
    \/ RemoveReferenceFile
    \/ LoadExisting(2, LastLoad(2))

\* C28: a load_existing that returns false leaves enum_assignments and
\* namespace_assignments of its catalog exactly as they were, also when
\* the tables' files were there and parsed before the missing file of a
\* namespace was found.
C28_FailedLoadChangesNothing ==
    [][(catLast'.op = "load_existing" /\ ~catLast'.ret) =>
        /\ cat'[catLast'.cat].enum_assignments = cat[catLast'.cat].enum_assignments
        /\ cat'[catLast'.cat].namespace_assignments
              = cat[catLast'.cat].namespace_assignments]_vars

\* load_existing returned false with the table's file present and the
\* namespace's gone, on a catalog whose assignments from an earlier load
\* differ from what the table's file now holds.
C28_Witness ==
    /\ catLast.op = "load_existing" /\ ~catLast.ret
    /\ refdir.exists
    /\ refdir.files["region.csv"] # None
    /\ refdir.files["ror.csv"] = None
    /\ cat[2].enum_assignments["region"] # None
    /\ cat[2].enum_assignments["region"][1]
          # _read_assignments(refdir.files["region.csv"][1], F_id, F_value)

\* C5: once finalize has written the directory, load_existing on a catalog
\* of the same configuration returns true and yields exactly the
\* assignments finalize produced, for every table and namespace.
C5_RoundTrip ==
    \A c \in CatIds :
        dirAsg # None =>
            /\ load_ok(refdir)
            /\ AssignmentsOf(load_existing(cat[c], refdir)) = dirAsg[1]

\* C5 witness: load_existing has just returned true and the catalog holds
\* the assignments finalize produced, among them the ID of a value that
\* has to be quoted in the file.
C5_Witness ==
    /\ catLast.op = "load_existing" /\ catLast.ret
    /\ AssignmentsOf(cat[1]) = dirAsg[1]
    /\ \E name \in ConfigNames :
          /\ Cardinality(DOMAIN dirAsg[1][name][1]) >= 2
          /\ <<QUOTE, TAB, COMMA, SPACE>> \in DOMAIN dirAsg[1][name][1]

----------------------------------------------------------------------------
(* StableIdGenerator                                                       *)

\* The values and bit widths generate is called with.
GenValues == { <<>>, <<"a">>, <<"b">> }
GenBits == {1, 16}

\* catalog.namespace_assignments as a dict: the namespaces that have an
\* entry, each with its value -> ID dict.
NamespaceAssignmentsDict(c) ==
    [n \in {n \in DOMAIN c.namespace_assignments : c.namespace_assignments[n] # None}
        |-> c.namespace_assignments[n][1]]

\* StableIdGenerator.__init__(assignments, recorder): _assignments is a
\* copy of the assignments given ({} for None); the recorder, when there is
\* one, is catalog 1's record_namespace.
NewGenerator(assignments, recorder) ==
    [assignments |-> assignments, recorder |-> recorder]

\* A slip in the lookup: a value without an assignment yields 0 (as from
\* dict.get(value, 0)) instead of raising KeyError.
LookupOrZero(namespace_map, value) ==
    IF value \in DOMAIN namespace_map THEN Some(namespace_map[value]) ELSE Some(0)

\* namespace_map[value]: Some(id), or None where KeyError is raised.
Lookup(namespace_map, value) ==
    IF value \in DOMAIN namespace_map THEN Some(namespace_map[value]) ELSE None

\* Whether generate takes its recording branch.
Recording(g) == g.recorder /\ DOMAIN g.assignments = {}

\* A slip in generate: the recording branch also mints an ID and memoizes
\* it in _assignments.
GenAfterMemo(g, namespace, value) ==
    IF value # <<>> /\ Recording(g)
    THEN [g EXCEPT !.assignments = (namespace :> (value :> 1))]
    ELSE g

\* The generator after generate(namespace, value): generate changes
\* neither _assignments nor _recorder.
GenAfter(g, namespace, value) == g

\* StableIdGenerator.generate(namespace, value, bits): how the call ends
\* ("returned", "ValueError", "KeyError"), what it returns, and whether it
\* called the recorder.  bits is not used.
generate(g, namespace, value, bits) ==
    IF value = <<>>
    THEN [outcome |-> "ValueError", result |-> 0, recorded |-> FALSE]
    ELSE IF Recording(g)
    THEN [outcome |-> "returned", result |-> 0, recorded |-> TRUE]
    ELSE IF namespace \notin DOMAIN g.assignments
    THEN [outcome |-> "KeyError", result |-> 0, recorded |-> FALSE]
    ELSE LET found == Lookup(g.assignments[namespace], value)
         IN  IF found = None
             THEN [outcome |-> "KeyError", result |-> 0, recorded |-> FALSE]
             ELSE [outcome |-> "returned", result |-> found[1], recorded |-> FALSE]

GeneratorInit ==
    /\ gen = NewGenerator([n \in {} |-> 0], FALSE)
    /\ genFirst = None
    /\ genLast = [op |-> "none"]

\* A generator is built: with or without the catalog's assignments, with
\* or without the catalog's record_namespace as its recorder.
Construct ==
    \E withAssignments, withRecorder \in BOOLEAN :
        /\ gen' = NewGenerator(
                     IF withAssignments THEN NamespaceAssignmentsDict(cat[1])
                                        ELSE [n \in {} |-> 0],
                     withRecorder)
        /\ genFirst' = None
        /\ genLast' = [op |-> "new"]
        /\ UNCHANGED <<emitterVars, catalogVars, readerVars, registryVars>>

Generate ==
    \E namespace \in NamespaceNames, value \in GenValues, bits \in GenBits :
        LET r == generate(gen, namespace, value, bits)
            key == <<namespace, value>>
            repeat == genFirst # None /\ genFirst[1].key = key
        IN  /\ r.recorded => HasRoom(1, namespace, value)
            /\ gen' = GenAfter(gen, namespace, value)
            /\ cat' = IF r.recorded
                      THEN [cat EXCEPT ![1] = record_namespace(@, namespace, value)]
                      ELSE cat
            /\ recorded' = IF r.recorded THEN RecordedAfter(1, namespace, value)
                           ELSE recorded
            /\ first' = IF r.recorded THEN FirstAfter(1, namespace, value) ELSE first
            /\ genFirst' =
                 IF genFirst = None
                 THEN Some([key |-> key, outcome |-> r.outcome,
                            result |-> r.result, others |-> FALSE])
                 ELSE IF repeat THEN genFirst
                 ELSE Some([genFirst[1] EXCEPT !.others = TRUE])
            /\ genLast' = [op |-> "generate", namespace |-> namespace,
                           value |-> value, bits |-> bits,
                           recording |-> Recording(gen),
                           outcome |-> r.outcome, result |-> r.result,
                           repeat |-> repeat]
            /\ UNCHANGED <<emitterVars, refdir, src, dirSrc, dirAsg, catLast,
                         readerVars, registryVars>>

\* The two-pass use of the generator: generate records through the
\* catalog, finalize assigns, and a generator is built from the result.
GeneratorNext ==
    \/ Construct
    \/ Generate
    \/ Finalize(1, catLast)

RECURSIVE Pow2(_)
Pow2(n) == IF n = 0 THEN 1 ELSE 2 * Pow2(n - 1)

\* C9 as claimed: every generate that returns a value returns n with
\* 0 < n < 2^bits.
C9_PositiveWithinBits ==
    (genLast.op = "generate" /\ genLast.outcome = "returned") =>
        (0 < genLast.result /\ genLast.result < Pow2(genLast.bits))

\* C9 amended: a generate that returns a value returns 0 exactly when it is
\* in its recording branch (a recorder and no assignments), having handed
\* the value to the catalog; otherwise it returns the ID its assignments
\* hold for (namespace, value), which is at least 1 for assignments that
\* IdCatalog produced.  The result is not bounded by 2^bits.
C9_ZeroOnlyWhenRecording ==
    (genLast.op = "generate" /\ genLast.outcome = "returned") =>
        IF genLast.recording
        THEN /\ genLast.result = 0
             /\ genLast.value \in cat[1].namespace_values[genLast.namespace]
        ELSE /\ genLast.result >= 1
             /\ genLast.namespace \in DOMAIN gen.assignments
             /\ genLast.value \in DOMAIN gen.assignments[genLast.namespace]
             /\ genLast.result = gen.assignments[genLast.namespace][genLast.value]

\* C9 witness: a generate outside the recording branch returned an ID that
\* does not fit the bits it was given.
C9_Witness ==
    /\ genLast.op = "generate" /\ genLast.outcome = "returned"
    /\ ~genLast.recording
    /\ genLast.result >= Pow2(genLast.bits)

\* C10 as claimed: a second generate of the same (namespace, value) on one
\* instance returns the same integer as the first, and it is not 0.
C10_SameNonZero ==
    (/\ genLast.op = "generate" /\ genLast.repeat
     /\ genLast.outcome = "returned" /\ genFirst[1].outcome = "returned") =>
        (genLast.result = genFirst[1].result /\ genLast.result # 0)

\* C10 amended: a second generate of the same (namespace, value) on one
\* instance ends as the first did: the same integer (0 in the recording
\* branch, the assigned ID otherwise) or the same error.
C10_SameResult ==
    (genLast.op = "generate" /\ genLast.repeat) =>
        /\ genLast.outcome = genFirst[1].outcome
        /\ genLast.result = genFirst[1].result

\* C10 witness: the same pair generated again, other pairs having been
\* generated in between, with the same ID returned.
C10_Witness ==
    /\ genLast.op = "generate" /\ genLast.repeat
    /\ genFirst[1].others
    /\ genLast.outcome = "returned" /\ genLast.result >= 1
    /\ genLast.result = genFirst[1].result

\* The last call was a generate of pass 2: on a generator that holds the
\* namespace_assignments of the finalized catalog, for a pair that a
\* recording generate of pass 1 handed to the catalog before finalize.
PassTwo ==
    /\ genLast.op = "generate"
    /\ src[1] # None
    /\ gen.assignments = NamespaceAssignmentsDict(cat[1])
    /\ <<genLast.namespace, genLast.value>> \in src[1][1]

\* C27 as claimed: every pair generated in pass 1 gets a positive ID in
\* pass 2, with no call of the recorder and no error.
C27_EveryPairResolves ==
    PassTwo =>
        /\ ~genLast.recording
        /\ genLast.outcome = "returned"
        /\ genLast.result >= 1

\* C27 amended: every pair generated in pass 1 whose namespace is one of
\* the catalog's configured namespaces gets a positive ID in pass 2, with
\* no call of the recorder and no error; for a namespace without
\* configuration, which finalize passes over, pass 2 ends with KeyError.
C27_ConfiguredPairResolves ==
    PassTwo =>
        /\ ~genLast.recording
        /\ IF genLast.namespace \in DOMAIN NamespaceConfigs
           THEN /\ genLast.outcome = "returned"
                /\ genLast.result >= 1
                /\ genLast.result
                      = cat[1].namespace_assignments[genLast.namespace][1][genLast.value]
           ELSE genLast.outcome = "KeyError"

\* C27 witness: pass 2 returned the ID 2 for a pair of the configured
\* namespace, two of its values having been generated in pass 1.
C27_Witness ==
    /\ PassTwo
    /\ genLast.namespace \in DOMAIN NamespaceConfigs
    /\ genLast.outcome = "returned"
    /\ genLast.result = 2

----------------------------------------------------------------------------
(* SnapshotReader                                                          *)

\* The most lines a part file holds.
MaxLines == 2
\* The largest max_records and the largest max_files given.
MaxCap == 3
MaxFileCap == 2

\* The updated_date=... directories of the entity and the part files a
\* directory may hold, named so that name order is number order.
Partitions == {1, 2}
PartFiles == {1, 2}
IterIds == {1, 2}

\* The entities iteration is asked for: the snapshot root holds a
\* directory for "works" and none for "nope".
Entities == {"works"}
EntityNames == {"works", "nope"}

\* A snapshot gives for every part file None (no such file) or Some(n),
\* the file holding n lines.  The document on line l of part file f of
\* directory p is <<p, f, l>>.
Snapshots == [Partitions \X PartFiles -> {None} \cup {Some(n) : n \in 0..MaxLines}]

\* sorted(...) of a set of names
RECURSIVE sorted_paths(_)
sorted_paths(S) ==
    IF S = {} THEN <<>>
    ELSE LET m == CHOOSE x \in S : \A y \in S : x <= y
         IN  <<m>> \o sorted_paths(S \ {m})

\* The part files in the order the two loops of iter_entity reach them:
\* the sorted directories, and in each its sorted part files.
RECURSIVE PartFilePaths(_, _)
PartFilePaths(sn, directories) ==
    IF directories = <<>> THEN <<>>
    ELSE LET p == Head(directories)
             part_files == sorted_paths({f \in PartFiles : sn[<<p, f>>] # None})
         IN  [k \in DOMAIN part_files |-> <<p, part_files[k]>>]
                 \o PartFilePaths(sn, Tail(directories))

\* The updated_dates arguments given: none, an empty list, a list out of
\* order with a date twice, and a list naming a date (3) that has no
\* directory.
UpdatedDates ==
    { None, Some(<<>>), Some(<<2, 1, 2>>), Some(<<3, 1>>) }

\* The directories iter_entity goes through: those named by a non-empty
\* updated_dates, as sorted(set(updated_dates)), else all of them, sorted;
\* a directory that does not exist is passed over.
Directories(updated_dates) ==
    LET exists(p) == p \in Partitions
    IN  IF updated_dates # None /\ updated_dates[1] # <<>>
        THEN SelectSeq(sorted_paths(Range(updated_dates[1])), exists)
        ELSE sorted_paths(Partitions)

Paths(sn, updated_dates) == PartFilePaths(sn, Directories(updated_dates))

\* A reader whose parser accepts every line.
MalformedNever(sn, path, line) == FALSE

\* A part file given as <<n, b>> holds n lines of which line b is not
\* JSON; one given as Some(n) holds n lines that all parse.
Malformed(sn, path, line) == Len(sn[path]) = 2 /\ sn[path][2] = line

\* ProgressReporter(label, interval): nothing counted, nothing printed.
Reporter(interval) == [interval |-> interval, _count |-> 0, printed |-> 0]

\* ProgressReporter.__call__(): the count goes up by one, and a line is
\* printed when it is a multiple of the interval; the remainder by an
\* interval of 0 raises ZeroDivisionError.
ProgressCall(p) ==
    LET count == p._count + 1
    IN  IF p.interval = 0
        THEN [p |-> [p EXCEPT !._count = count], outcome |-> "ZeroDivisionError"]
        ELSE [p |-> [p EXCEPT !._count = count,
                              !.printed = IF count % p.interval = 0 THEN @ + 1 ELSE @],
              outcome |-> "ok"]

\* iter_entity(entity, updated_dates, max_files, max_records, progress):
\* the generator object, whose body has not started.
NewIterator(entity, updated_dates, max_files, max_records, progress) ==
    [pc |-> "start", entity |-> entity, updated_dates |-> updated_dates,
     max_files |-> max_files, max_records |-> max_records,
     progress |-> progress,
     yielded |-> 0, files_read |-> 0, already_yielded |-> 0,
     fileIdx |-> 0, lineIdx |-> 0, out |-> <<>>]

NoIterator == [pc |-> "none"]

\* max_records is not None and count >= max_records
CapReached(cap, count) == cap # None /\ count >= cap[1]

\* The test of _iter_file after a document was yielded.
RecordCapReached(it, count) == CapReached(it.max_records, count)

RECURSIVE AfterFile(_, _, _)
RECURSIVE NextFile(_, _, _)

\* iter_entity after `yield from self._iter_file(...)` has ended: the
\* file's count is added, the two caps are tested, and the loops go on.
AfterFile(sn, it, lfc) ==
    LET it2 == [it EXCEPT !.yielded = @ + lfc]
    IN  IF CapReached(it2.max_records, it2.yielded)
        THEN [it |-> [it2 EXCEPT !.pc = "done"], lfc |-> lfc]
        ELSE IF CapReached(it2.max_files, it2.files_read)
        THEN [it |-> [it2 EXCEPT !.pc = "done"], lfc |-> lfc]
        ELSE NextFile(sn, it2, lfc)

\* The loops of iter_entity reach the next part file, if there is one:
\* files_read is incremented, _iter_file resets _last_file_count, parses
\* the file's first line and yields the document.
NextFile(sn, it, lfc) ==
    IF it.fileIdx = Len(Paths(sn, it.updated_dates))
    THEN [it |-> [it EXCEPT !.pc = "done"], lfc |-> lfc]
    ELSE LET path == Paths(sn, it.updated_dates)[it.fileIdx + 1]
             it2 == [it EXCEPT !.fileIdx = @ + 1, !.files_read = @ + 1,
                               !.already_yielded = it.yielded, !.lineIdx = 0]
         IN  IF sn[path][1] > 0
             THEN IF Malformed(sn, path, 1)
                  THEN [it |-> [it2 EXCEPT !.pc = "JSONDecodeError"], lfc |-> 0]
                  ELSE [it |-> [it2 EXCEPT !.pc = "yield", !.lineIdx = 1,
                                           !.out = Append(@, <<path[1], path[2], 1>>)],
                        lfc |-> 0]
             ELSE AfterFile(sn, it2, 0)

\* _iter_file resumed after its yield: _last_file_count is incremented,
\* progress is called if there is one, the record cap is tested, and the
\* next line, if there is one, is parsed and its document yielded.
AfterYield(sn, it, lfc) ==
    LET path == Paths(sn, it.updated_dates)[it.fileIdx]
        count == lfc + 1
        called == IF it.progress = None
                  THEN [p |-> None, outcome |-> "ok"]
                  ELSE LET c == ProgressCall(it.progress[1])
                       IN  [p |-> Some(c.p), outcome |-> c.outcome]
        it1 == [it EXCEPT !.progress = called.p]
    IN  IF called.outcome # "ok"
        THEN [it |-> [it1 EXCEPT !.pc = called.outcome], lfc |-> count]
        ELSE IF RecordCapReached(it1, it1.already_yielded + count)
        THEN AfterFile(sn, it1, count)
        ELSE IF it1.lineIdx < sn[path][1]
        THEN IF Malformed(sn, path, it1.lineIdx + 1)
             THEN [it |-> [it1 EXCEPT !.pc = "JSONDecodeError"], lfc |-> count]
             ELSE [it |-> [it1 EXCEPT !.lineIdx = @ + 1,
                                      !.out = Append(@, <<path[1], path[2], it1.lineIdx + 1>>)],
                   lfc |-> count]
        ELSE AfterFile(sn, it1, count)

\* self._resolve_entity_root(entity): whether the entity's directory exists.
EntityRootExists(entity) == entity \in Entities

\* next() on the generator: run it to its next yield or to its end.  The
\* body starts at the first next(): it resolves the entity root, and the
\* generator ends with FileNotFoundError if there is none.
Resume(sn, it, lfc) ==
    IF it.pc = "start"
    THEN IF EntityRootExists(it.entity)
         THEN NextFile(sn, it, lfc)
         ELSE [it |-> [it EXCEPT !.pc = "FileNotFoundError"], lfc |-> lfc]
    ELSE AfterYield(sn, it, lfc)

\* No reader yet.
ReaderInit ==
    /\ snap = None
    /\ iters = [i \in IterIds |-> NoIterator]
    /\ lastFileCount = 0

\* SnapshotReader.__init__ on a snapshot root that holds one of the
\* snapshots Snaps.
NewReaderOn(Snaps) ==
    /\ snap = None
    /\ \E sn \in Snaps : snap' = Some(sn)
    /\ lastFileCount' = 0
    /\ UNCHANGED <<iters, emitterVars, catalogVars, generatorVars, registryVars>>

\* SnapshotReader.__init__ on a snapshot root that holds any snapshot.
NewReader == NewReaderOn(Snapshots)

Caps(n) == {None} \cup {Some(k) : k \in 0..n}

\* iter_entity is called with arguments from the sets given; for the
\* entity without a directory, with its default arguments.
IterEntityWith(i, Names, Dates, FileCaps, RecordCaps, Progress) ==
    \E entity \in Names, updated_dates \in Dates,
       max_files \in FileCaps, max_records \in RecordCaps,
       progress \in Progress :
        /\ snap # None
        /\ iters[i].pc = "none"
        /\ entity \notin Entities =>
              updated_dates = None /\ max_files = None /\ max_records = None
        /\ iters' = [iters EXCEPT ![i] =
                         NewIterator(entity, updated_dates, max_files,
                                     max_records, progress)]
        /\ UNCHANGED <<snap, lastFileCount, emitterVars, catalogVars,
                       generatorVars, registryVars>>

IterEntity(i) ==
    IterEntityWith(i, EntityNames, UpdatedDates, Caps(MaxFileCap), Caps(MaxCap),
                   {None})

NextItem(i) ==
    /\ iters[i].pc \in {"start", "yield"}
    /\ LET r == Resume(snap[1], iters[i], lastFileCount)
       IN  /\ iters' = [iters EXCEPT ![i] = r.it]
           /\ lastFileCount' = r.lfc
    /\ UNCHANGED <<snap, emitterVars, catalogVars, generatorVars, registryVars>>

\* One iteration over the entity, consumed to its end.
ReaderNext == NewReader \/ IterEntity(1) \/ NextItem(1)

\* The snapshots and caps of two iterations over one reader: the part
\* files of the first partition, a record cap of 1 or 2 or none, a file
\* cap of 1 or none.
PairSnapshots ==
    {sn \in Snapshots : sn[<<2, 1>>] = None /\ sn[<<2, 2>>] = None}
PairRecordCaps == {None, Some(1), Some(2)}
PairFileCaps == {None, Some(1)}

\* Two iterations created from one reader, consumed in any interleaving.
ReaderPairNext ==
    \/ NewReaderOn(PairSnapshots)
    \/ \E i \in IterIds :
          IterEntityWith(i, Entities, {None}, PairFileCaps, PairRecordCaps,
                         {None})
    \/ \E i \in IterIds : NextItem(i)

\* An iteration consumed alone, on a reader of its own, to its end.
RECURSIVE ConsumedAlone(_, _, _)
ConsumedAlone(sn, it, lfc) ==
    IF it.pc \in {"start", "yield"}
    THEN LET r == Resume(sn, it, lfc) IN ConsumedAlone(sn, r.it, r.lfc)
    ELSE it

\* What iteration i yields when it is consumed alone.
AloneOut(i) ==
    ConsumedAlone(snap[1],
                  NewIterator(iters[i].entity, iters[i].updated_dates,
                              iters[i].max_files, iters[i].max_records,
                              None),
                  0).out

IsPrefix(s, t) == Len(s) <= Len(t) /\ \A k \in DOMAIN s : s[k] = t[k]

\* C21: of two iterations on one reader, consumed in any interleaving, each
\* yields what it yields when consumed alone and stops where it stops then.
C21_InterleavingSafe ==
    \A i \in IterIds :
        iters[i].pc \in {"yield", "done"} =>
            /\ IsPrefix(iters[i].out, AloneOut(i))
            /\ iters[i].pc = "done" => iters[i].out = AloneOut(i)

\* Snapshots with lines that are not JSON: the part files of the first
\* partition, each absent, or of 0..MaxLines lines of which one at most is
\* malformed.
MalformedSnapshots ==
    {sn \in [Partitions \X PartFiles ->
                {None} \cup {Some(n) : n \in 0..MaxLines}
                       \cup {<<n, b>> : n \in 1..MaxLines, b \in 1..MaxLines}] :
        /\ sn[<<2, 1>>] = None /\ sn[<<2, 2>>] = None
        /\ \A pf \in Partitions \X PartFiles : Len(sn[pf]) = 2 => sn[pf][2] <= sn[pf][1]}

\* One iteration over a snapshot that may hold malformed lines.
ReaderMalformedNext ==
    \/ NewReaderOn(MalformedSnapshots)
    \/ IterEntityWith(1, Entities, {None}, {None}, Caps(MaxCap), {None})
    \/ NextItem(1)

\* The progress arguments given: none, and reporters of interval 0, 1
\* and 2.
Intervals == {0, 1, 2}
Reporters == {None} \cup {Some(Reporter(n)) : n \in Intervals}

\* One iteration, with or without a progress reporter.
ReaderProgressNext ==
    \/ NewReaderOn(PairSnapshots)
    \/ IterEntityWith(1, Entities, {None}, PairFileCaps, PairRecordCaps, Reporters)
    \/ NextItem(1)

\* The same iteration without a progress callback, consumed to its end.
WithoutProgress(i) ==
    ConsumedAlone(snap[1],
                  NewIterator(iters[i].entity, iters[i].updated_dates,
                              iters[i].max_files, iters[i].max_records,
                              None),
                  0)

\* C22: an iteration given a progress reporter of any interval yields the
\* documents the same iteration yields without one, and ends where that
\* one ends.
C22_ProgressObservational ==
    \A i \in IterIds :
        iters[i].pc \notin {"none", "start"} =>
            /\ IsPrefix(iters[i].out, WithoutProgress(i).out)
            /\ iters[i].pc # "yield" =>
                  /\ iters[i].pc = WithoutProgress(i).pc
                  /\ iters[i].out = WithoutProgress(i).out

\* The documents of the snapshot, and their partition-then-file-then-line
\* order.
Docs == {<<path[1], path[2], l>> : path \in Partitions \X PartFiles, l \in 1..MaxLines}
             \cap {d \in Partitions \X PartFiles \X (1..MaxLines) :
                      /\ snap[1][<<d[1], d[2]>>] # None
                      /\ d[3] <= snap[1][<<d[1], d[2]>>][1]}

DocBefore(a, b) ==
    \/ a[1] < b[1]
    \/ a[1] = b[1] /\ a[2] < b[2]
    \/ a[1] = b[1] /\ a[2] = b[2] /\ a[3] < b[3]

\* Whether the sequence out is the first n documents, in order.
IsFirstDocs(out, n) ==
    /\ Len(out) = n
    /\ \A j, k \in DOMAIN out : j < k => DocBefore(out[j], out[k])
    /\ Range(out) = {d \in Docs : Cardinality({e \in Docs : DocBefore(e, d)}) < n}

Min(a, b) == IF a <= b THEN a ELSE b

\* C6: an iteration with a record cap K and no file cap, once consumed to
\* its end, has yielded exactly the first min(K, T) documents of the
\* snapshot in partition-then-file-then-line order, T being the number of
\* lines of all part files.
C6_YieldsMinOfCapAndTotal ==
    (/\ iters[1].pc = "done"
     /\ iters[1].updated_dates = None
     /\ iters[1].max_files = None
     /\ iters[1].max_records # None) =>
        IsFirstDocs(iters[1].out, Min(iters[1].max_records[1], Cardinality(Docs)))

\* The part files that come before the file of document d.
FilesBefore(d) ==
    {pf \in Partitions \X PartFiles :
        /\ snap[1][pf] # None
        /\ \/ pf[1] < d[1]
           \/ pf[1] = d[1] /\ pf[2] < d[2]}

\* The number of documents in the first n part files.
DocsInFirstFiles(n) == Cardinality({d \in Docs : Cardinality(FilesBefore(d)) < n})

\* C18: an iteration with a file cap F, consumed to its end, has opened at
\* most F part files; without a record cap it has yielded exactly the
\* documents of the first F part files in order, and with a record cap K
\* as well it has stopped at whichever cap came first, having yielded the
\* first K of those documents at most.
C18_FileCap ==
    (/\ iters[1].pc = "done"
     /\ iters[1].updated_dates = None
     /\ iters[1].max_files # None) =>
        LET F == iters[1].max_files[1]
            inFiles == DocsInFirstFiles(F)
        IN  /\ iters[1].files_read <= F
            /\ IsFirstDocs(iters[1].out,
                           IF iters[1].max_records = None THEN inFiles
                           ELSE Min(iters[1].max_records[1], inFiles))

\* The documents of the partitions an iteration selects: all of them
\* without updated_dates, those of the dates given otherwise.
SelectedDocs(updated_dates) ==
    IF updated_dates = None THEN Docs
    ELSE {d \in Docs : d[1] \in Range(updated_dates[1])}

\* C19: an iteration without caps, consumed to its end, has yielded every
\* document of the selected partitions exactly once, by ascending
\* partition, then ascending file name, then line; with updated_dates
\* given, the partitions selected are those named, each visited once.
C19_AllInOrder ==
    (/\ iters[1].pc = "done"
     /\ iters[1].max_files = None /\ iters[1].max_records = None) =>
        LET out == iters[1].out
        IN  /\ \A j, k \in DOMAIN out : j < k => DocBefore(out[j], out[k])
            /\ Range(out) = SelectedDocs(iters[1].updated_dates)

\* The malformed lines of the snapshot, and the lines before the first of
\* them in traversal order.
BadLines ==
    {d \in Docs : LET file == snap[1][<<d[1], d[2]>>]
                  IN  Len(file) = 2 /\ file[2] = d[3]}
BeforeFirstBad ==
    {d \in Docs : \A b \in BadLines : DocBefore(d, b)}

\* C23: an iteration that ends with the parse error has yielded exactly
\* the documents before the first malformed line; one with a record cap
\* K >= 1 that is reached before that line ends without error, having
\* yielded K documents; and no iteration ends normally past a malformed
\* line.
C23_FailsAtMalformedLine ==
    iters[1].pc # "none" =>
        LET it == iters[1]
            K == it.max_records
            before == Cardinality(BeforeFirstBad)
        IN  /\ it.pc = "JSONDecodeError" =>
                  /\ BadLines # {}
                  /\ Len(it.out) = before
                  /\ Range(it.out) = BeforeFirstBad
                  /\ \A j, k \in DOMAIN it.out : j < k => DocBefore(it.out[j], it.out[k])
            /\ (BadLines # {} /\ K # None /\ K[1] >= 1 /\ before >= K[1]) =>
                  /\ it.pc # "JSONDecodeError"
                  /\ Len(it.out) <= K[1]
                  /\ it.pc = "done" => Len(it.out) = K[1]
            /\ (BadLines # {} /\ it.pc = "done") =>
                  K # None /\ K[1] <= before

\* An iteration with a record cap not reached before the malformed line
\* has yielded a document and then failed at the line.
C23_Witness ==
    /\ iters[1].pc = "JSONDecodeError"
    /\ iters[1].max_records = Some(2)
    /\ Len(iters[1].out) = 1

\* C20: iteration over an entity whose directory is absent fails when
\* iter_entity is called: no generator for such an entity exists that the
\* consumer has yet to ask for its first document.
C20_FailsAtConstruction ==
    \A i \in IterIds :
        iters[i].pc = "start" => EntityRootExists(iters[i].entity)

----------------------------------------------------------------------------
(* EnumerationRegistry                                                     *)

\* The configurations register is called with: the enumeration "region",
\* with or without a reference file, normalised by the default strip or
\* by str.casefold.
RegConfigs ==
    { [table |-> "region", id_column |-> F_id, value_column |-> F_value,
       bits |-> 16, reference_filename |-> rf, normalise |-> nm] :
         rf \in {None, Some("region.csv")}, nm \in {None, Some("casefold")} }

\* The tables id_for is called with ("fact" is never registered) and the
\* raw values it is given.
IdForTables == {"region", "fact"}
RawValues == { None, Some(<<>>), Some(<<SPACE>>), Some(<<"a">>), Some(<<"b">>) }

\* The values recorded into the catalog that writes the reference files.
RegValues == { <<"B">>, <<"b">> }

\* A reference file kept by hand, comma-delimited.
ExternalFile ==
    CsvLine(<<F_id, F_value>>, COMMA)
        \o CsvLine(<<IntToStr(1), <<"a">>>>, COMMA)
        \o CsvLine(<<IntToStr(2), <<SPACE, "B">>>>, COMMA)

\* A reference file kept by hand in which two raw values differ in
\* surrounding whitespace only.
ExternalVariantsFile ==
    CsvLine(<<F_id, F_value>>, COMMA)
        \o CsvLine(<<IntToStr(1), <<"a">>>>, COMMA)
        \o CsvLine(<<IntToStr(2), <<SPACE, "a">>>>, COMMA)

ExternalFiles == {ExternalFile, ExternalVariantsFile}

EmptyMap == [t \in {} |-> 0]

\* EnumerationRegistry.__init__: the generator is StableIdGenerator(), with
\* neither assignments nor a recorder.
NewRegistry(reference_dir) ==
    [reference_dir |-> reference_dir,
     generator |-> NewGenerator(EmptyMap, FALSE),
     configs |-> EmptyMap,
     value_to_id |-> EmptyMap,
     id_to_value |-> EmptyMap]

\* A slip in _normalise: the value is taken as it is.
_normaliseAsIs(config, value) == value

\* EnumerationRegistry._normalise
_normalise(config, value) ==
    IF config.normalise # None THEN casefold(value) ELSE strip(value)

\* d[key] = item
DictSet(d, key, item) == (key :> item) @@ d

\* The registry after a (value, identifier) pair entered both caches.
Cached(r, table, value, identifier) ==
    [r EXCEPT !.value_to_id[table] = DictSet(@, value, identifier),
              !.id_to_value[table] = DictSet(@, identifier, value)]

\* The loop of _load_reference over the rows of the DictReader.  The state
\* st holds the registry, the emitter's seen keys and sink, and the rows
\* handed to emit so far.
RECURSIVE LoadRows(_, _, _, _)
LoadRows(fieldnames, rows, config, st) ==
    IF rows = <<>> THEN st
    ELSE
    LET raw_id == DictRowGet(fieldnames, Head(rows), config.id_column)
        raw_value == DictRowGet(fieldnames, Head(rows), config.value_column)
        skip == raw_id \in {None, Some(<<>>)} \/ raw_value \in {None, Some(<<>>)}
        identifier == IF skip THEN None ELSE ParseInt(raw_id[1])
        value == IF skip THEN <<>> ELSE _normalise(config, raw_value[1])
        emit_row == Row2(config.id_column, Some(identifier[1]),
                         config.value_column, Some(value))
        e == emit(st.seen, st.sink, config.table, emit_row, TRUE)
    IN  IF skip \/ identifier = None \/ value = <<>>
        THEN LoadRows(fieldnames, Tail(rows), config, st)
        ELSE LoadRows(fieldnames, Tail(rows), config,
                      [reg |-> Cached(st.reg, config.table, value, identifier[1]),
                       seen |-> e.seen, sink |-> e.sink,
                       passed |-> st.passed \cup {emit_row}])

\* csv.DictReader(handle) of _load_reference: the default dialect, whose
\* delimiter is the comma.
ReferenceDelimiter(text) == COMMA

\* EnumerationRegistry._load_reference(config)
_load_reference(st, config, dir) ==
    LET file == IF dir.exists THEN dir.files[config.reference_filename[1]] ELSE None
        records == CsvRecords(file[1], ReferenceDelimiter(file[1]))
    IN  IF file = None \/ records = <<>> THEN st
        ELSE LoadRows(records[1], DictRows(records), config, st)

\* EnumerationRegistry.register(config)
register(st, config, dir) ==
    LET t == config.table
        r == st.reg
        r2 == [r EXCEPT
                 !.configs = DictSet(@, t, config),
                 !.value_to_id = IF t \in DOMAIN @ THEN @ ELSE DictSet(@, t, EmptyMap),
                 !.id_to_value = IF t \in DOMAIN @ THEN @ ELSE DictSet(@, t, EmptyMap)]
        st2 == [st EXCEPT !.reg = r2]
    IN  IF config.reference_filename # None /\ r.reference_dir
        THEN _load_reference(st2, config, dir)
        ELSE st2

\* EnumerationRegistry.id_for(table, raw_value): the state after the call,
\* how it ended ("returned", "KeyError") and the Optional[int] returned.
id_for(st, table, raw_value) ==
    LET r == st.reg
        ended(outcome, result) ==
            [st |-> st, outcome |-> outcome, result |-> result]
    IN  IF raw_value = None THEN ended("returned", None)
        ELSE IF table \notin DOMAIN r.configs THEN ended("KeyError", None)
        ELSE
        LET config == r.configs[table]
            value == _normalise(config, raw_value[1])
            table_map == r.value_to_id[table]
            g == generate(r.generator, table, value, config.bits)
            emit_row == Row2(config.id_column, Some(g.result),
                             config.value_column, Some(value))
            e == emit(st.seen, st.sink, config.table, emit_row, TRUE)
        IN  IF value = <<>> THEN ended("returned", None)
            ELSE IF value \in DOMAIN table_map
            THEN ended("returned", Some(table_map[value]))
            ELSE IF g.outcome # "returned" THEN ended(g.outcome, None)
            ELSE [st |-> [reg |-> Cached(r, table, value, g.result),
                          seen |-> e.seen, sink |-> e.sink,
                          passed |-> st.passed \cup {emit_row}],
                  outcome |-> "returned", result |-> Some(g.result)]

RegistryInit ==
    /\ reg = NewRegistry(FALSE)
    /\ regLast = [op |-> "none"]
    /\ regLoaded = None

\* The run's registry is built over the emitter, with or without the
\* reference directory, before any call is made on it.
ConstructRegistry ==
    \E reference_dir \in BOOLEAN :
        /\ regLast.op = "none"
        /\ reg' = NewRegistry(reference_dir)
        /\ regLast' = [op |-> "new"]
        /\ regLoaded' = None
        /\ UNCHANGED <<emitterVars, catalogVars, generatorVars, readerVars>>

\* The registry's view of the emitter before a call.
RegState == [reg |-> reg, seen |-> seen, sink |-> sink, passed |-> {}]

\* Whether the file is the one IdCatalog.finalize wrote for the table.
WrittenByFinalize(dir, filename, table) ==
    /\ dirAsg # None
    /\ dir.exists
    /\ dir.files[filename] =
          Some(_write_records(<<EnumConfigs[table].id_column,
                                 EnumConfigs[table].value_column>>,
                              DOMAIN dirAsg[1][table][1], dirAsg[1][table][1]))

Register ==
    \E config \in RegConfigs :
        LET st == register(RegState, config, refdir)
            loads == config.reference_filename # None /\ reg.reference_dir
            byFinalize ==
                /\ loads
                /\ WrittenByFinalize(refdir, config.reference_filename[1],
                                     config.table)
        IN  /\ reg' = st.reg
            /\ regLoaded' = IF byFinalize THEN Some(dirAsg[1][config.table][1])
                            ELSE None
            /\ seen' = st.seen
            /\ sink' = st.sink
            /\ regLast' = [op |-> "register", config |-> config,
                           byFinalize |-> byFinalize,
                           passed |-> st.passed]
            /\ UNCHANGED <<emitLast, catalogVars, generatorVars, readerVars>>

IdFor ==
    \E table \in IdForTables, raw_value \in RawValues :
        LET r == id_for(RegState, table, raw_value)
            registered == table \in DOMAIN reg.configs
            value == IF registered /\ raw_value # None
                     THEN _normalise(reg.configs[table], raw_value[1]) ELSE <<>>
        IN  /\ reg' = r.st.reg
            /\ seen' = r.st.seen
            /\ sink' = r.st.sink
            /\ regLast' = [op |-> "id_for", table |-> table, raw |-> raw_value,
                           registered |-> registered, value |-> value,
                           miss |-> registered /\ value # <<>>
                                      /\ value \notin DOMAIN reg.value_to_id[table],
                           outcome |-> r.outcome, result |-> r.result,
                           passed |-> r.st.passed]
            /\ UNCHANGED <<regLoaded, emitLast, catalogVars, generatorVars,
                           readerVars>>

\* A reference file kept by hand is put into the reference directory,
\* where there is none.
PlaceReferenceFile ==
    /\ refdir.files["region.csv"] = None
    /\ \E text \in ExternalFiles :
          refdir' = [exists |-> TRUE,
                     files |-> [refdir.files EXCEPT !["region.csv"] = Some(text)]]
    /\ UNCHANGED <<cat, recorded, first, src, dirSrc, dirAsg, catLast,
                   emitterVars, generatorVars, readerVars, registryVars>>

\* A catalog records and writes the reference files, a registry over the
\* same directory registers the enumeration and resolves values.
RegistryNext ==
    \/ RecordEnum(1, RegValues, FALSE)
    \/ Finalize(1, catLast)
    \/ PlaceReferenceFile
    \/ ConstructRegistry
    \/ Register
    \/ IdFor

\* C7: id_for on a registered table with a non-empty normalised value that
\* is not in the cache returns a new ID, holds value -> ID and ID -> value
\* in the cache afterwards, and has handed the (id, value) row to emit.
C7_MissMintsAndEmits ==
    (regLast.op = "id_for" /\ regLast.miss) =>
        /\ regLast.outcome = "returned"
        /\ regLast.result # None
        /\ regLast.value \in DOMAIN reg.value_to_id[regLast.table]
        /\ reg.value_to_id[regLast.table][regLast.value] = regLast.result[1]
        /\ regLast.result[1] \in DOMAIN reg.id_to_value[regLast.table]
        /\ reg.id_to_value[regLast.table][regLast.result[1]] = regLast.value
        /\ Row2(F_id, regLast.result, F_value, Some(regLast.value)) \in regLast.passed

\* The rows the sink received for the table with the given value.
RowsOfValue(table, value_column, value) ==
    {i \in DOMAIN sink :
        /\ sink[i][1] = table
        /\ RowGet(sink[i][2], value_column) = Some(value)}

\* C14: for each registered table and each normalised value the registry
\* knows (loaded at register or resolved by id_for), the enumeration
\* table has received exactly one (id, value) row of that value.
C14_OneRowPerValue ==
    \A t \in DOMAIN reg.configs : \A v \in DOMAIN reg.value_to_id[t] :
        Cardinality(RowsOfValue(t, reg.configs[t].value_column, v)) = 1

\* C15: with a normalisation function configured, raw variants recorded in
\* the catalog, finalize run and the table registered from the file it
\* wrote, id_for of a raw value whose normalised form is that of a recorded
\* value returns an ID, the cache holds that single entry for the
\* normalised value, and no further row is emitted.
C15_VariantsShareOneId ==
    (/\ regLast.op = "id_for" /\ regLast.registered
     /\ regLoaded # None
     /\ reg.configs[regLast.table].normalise # None
     /\ regLast.value \in {_normalise(reg.configs[regLast.table], w) :
                              w \in DOMAIN regLoaded[1]}) =>
        /\ regLast.outcome = "returned"
        /\ regLast.result # None
        /\ regLast.passed = {}
        /\ regLast.value \in DOMAIN reg.value_to_id[regLast.table]
        /\ reg.value_to_id[regLast.table][regLast.value] = regLast.result[1]
        /\ Cardinality({i \in DOMAIN reg.id_to_value[regLast.table] :
                reg.id_to_value[regLast.table][i] = regLast.value}) = 1

\* C16: id_for on a table that was never registered fails with an error,
\* whatever the raw value.
C16_UnregisteredFails ==
    (regLast.op = "id_for" /\ ~regLast.registered) =>
        regLast.outcome = "KeyError"

\* Whether a raw value is None, empty, or normalises to the empty string
\* under the configuration: the default strip leaves nothing of a string
\* of whitespace, str.casefold empties the empty string only.
NormalisesToEmpty(config, raw_value) ==
    \/ raw_value = None
    \/ raw_value[1] = <<>>
    \/ /\ config.normalise = None
       /\ \A i \in DOMAIN raw_value[1] : IsSpace(raw_value[1][i])

\* C17: id_for on a registered table with a raw value that is None, empty
\* or normalises to the empty string returns None, leaves both cache
\* directions as they were and emits no row.
C17_EmptyIsAbsent ==
    [][(/\ regLast'.op = "id_for" /\ regLast'.registered
        /\ NormalisesToEmpty(reg.configs[regLast'.table], regLast'.raw)) =>
        /\ regLast'.outcome = "returned"
        /\ regLast'.result = None
        /\ reg'.value_to_id = reg.value_to_id
        /\ reg'.id_to_value = reg.id_to_value
        /\ regLast'.passed = {}
        /\ sink' = sink]_vars

\* C17 witness: id_for of a whitespace-only value returned None on a table
\* whose cache holds values and whose rows were emitted.
C17_Witness ==
    /\ regLast.op = "id_for" /\ regLast.registered
    /\ regLast.raw = Some(<<SPACE>>)
    /\ regLast.outcome = "returned" /\ regLast.result = None
    /\ DOMAIN reg.value_to_id[regLast.table] # {}
    /\ Len(sink) > 0

\* C8: after register of a table whose reference file was written by
\* IdCatalog.finalize, the cache holds every (normalised value, ID) pair of
\* the file and each pair was handed to emit.
C8_LoadsFinalizedFile ==
    (regLast.op = "register" /\ regLast.byFinalize) =>
        LET config == regLast.config
            t == config.table
            pairs == dirAsg[1][t][1]
        IN  \A v \in DOMAIN pairs :
              LET value == _normalise(config, v)
              IN  value # <<>> =>
                    /\ value \in DOMAIN reg.value_to_id[t]
                    /\ reg.value_to_id[t][value] = pairs[v]
                    /\ Row2(config.id_column, Some(pairs[v]),
                            config.value_column, Some(value)) \in regLast.passed

\* C30: the two caches of every registered table are mutual inverses:
\* value v maps to ID i in value_to_id exactly when i maps to v in
\* id_to_value.
C30_CachesMutualInverses ==
    \A t \in DOMAIN reg.value_to_id :
        LET to_id == reg.value_to_id[t]
            to_value == reg.id_to_value[t]
        IN  /\ \A v \in DOMAIN to_id :
                  to_id[v] \in DOMAIN to_value /\ to_value[to_id[v]] = v
            /\ \A i \in DOMAIN to_value :
                  to_value[i] \in DOMAIN to_id /\ to_id[to_value[i]] = i

Init ==
    /\ EmitterInit /\ CatalogInit /\ GeneratorInit
    /\ ReaderInit /\ RegistryInit

SpecEmitter == Init /\ [][EmitterNext]_vars

SpecEmitterBatch == Init /\ [][EmitterBatchNext]_vars

SpecCatalog == Init /\ [][CatalogNext]_vars

SpecCatalogPair == Init /\ [][CatalogPairNext]_vars

SpecCatalogDir == Init /\ [][CatalogDirNext]_vars

SpecCatalogRead == Init /\ [][CatalogReadNext]_vars

SpecCatalogFrame == Init /\ [][CatalogFrameNext]_vars

SpecGenerator == Init /\ [][GeneratorNext]_vars

SpecReader == Init /\ [][ReaderNext]_vars

SpecReaderPair == Init /\ [][ReaderPairNext]_vars

SpecReaderProgress == Init /\ [][ReaderProgressNext]_vars

SpecReaderMalformed == Init /\ [][ReaderMalformedNext]_vars

SpecRegistry == Init /\ [][RegistryNext]_vars

====
